---- MODULE Spec2Model ----
(***************************************************************************)
(* Model of .github/scripts/check-no-cyrillic.py: the CI check that fails  *)
(* when files changed in a revision range contain characters of the        *)
(* Unicode block U+0400..U+04FF.                                           *)
(*                                                                         *)
(* Text is modelled at the level the script works on it:                   *)
(*   - environment values and the diff range are strings;                  *)
(*   - a path is a sequence of one-character strings, so that the suffix   *)
(*     and its lower-casing are computed;                                  *)
(*   - a file's content is a sequence of code points (BadByte stands for   *)
(*     an undecodable byte), so that decoding, line splitting, the         *)
(*     pattern search, strip() and the preview cut are computed.           *)
(***************************************************************************)
EXTENDS Integers, Sequences, FiniteSets, TLC

VARIABLES
    env,            \* the process environment read by os.getenv
    git_rc,         \* the exit status of `git diff --name-only`
    git_output,     \* the names it prints when it succeeds
    disk,           \* the working tree: for each name its kind and content
    pc,             \* position of main()
    diff_range,     \* main's local diff_range
    changed_files,  \* main's local changed_files
    file_idx,       \* position of main's for loop over changed_files
    lines,          \* scan_file's local lines
    index,          \* scan_file's loop counter (enumerate(..., start=1))
    violations,     \* scan_file's local violations
    all_violations, \* main's local all_violations
    scanned,        \* the paths scan_file has been called with, in order
    stdout,         \* the lines printed so far
    exit_status     \* the process exit status, NoExit while running

vars == <<env, git_rc, git_output, disk, pc, diff_range, changed_files, file_idx, lines,
          index, violations, all_violations, scanned, stdout, exit_status>>

(***************************************************************************)
(* Bounds of the model.                                                    *)
(***************************************************************************)
MaxFiles == 2

(***************************************************************************)
(* Program constants.                                                      *)
(***************************************************************************)
CyrillicFirst == 1024

CyrillicLast == 1279

MaxPreview == 180

EllipsisCut == 177

Ellipsis == <<46, 46, 46>>

NullSha == "0000000000000000000000000000000000000000"

NoExit == -1

\* A byte utf-8 cannot decode; errors="ignore" drops it.
BadByte == -2

TEXT_EXTENSIONS ==
    { <<".", "j", "a", "v", "a">>,
      <<".", "k", "t">>,
      <<".", "k", "t", "s">>,
      <<".", "g", "r", "o", "o", "v", "y">>,
      <<".", "x", "m", "l">>,
      <<".", "y", "m", "l">>,
      <<".", "y", "a", "m", "l">>,
      <<".", "m", "d">>,
      <<".", "t", "x", "t">>,
      <<".", "p", "r", "o", "p", "e", "r", "t", "i", "e", "s">>,
      <<".", "j", "s", "o", "n">>,
      <<".", "t", "s">>,
      <<".", "t", "s", "x">>,
      <<".", "j", "s">>,
      <<".", "j", "s", "x">>,
      <<".", "c", "s", "s">>,
      <<".", "s", "c", "s", "s">>,
      <<".", "h", "t", "m", "l">>,
      <<".", "s", "q", "l">>,
      <<".", "s", "h">>,
      <<".", "p", "y">> }

MsgNoFiles == "No changed text files to scan."

MsgHeader == "Cyrillic characters detected in changed files:"

MsgBullet == "- "

MsgClosing == "Use English for PR descriptions, code comments, logs, and user-facing text in changed files."

MsgClean == "No Cyrillic characters detected in changed files."

(***************************************************************************)
(* os.getenv(name, ""): a variable of the environment is absent (<<>>) or  *)
(* set to a string (<<value>>).                                            *)
(***************************************************************************)
Getenv(e, name, default) == IF e[name] = <<>> THEN default ELSE e[name][1]

(***************************************************************************)
(* resolve_diff_range                                                      *)
(***************************************************************************)
\* Variant of resolve_diff_range that tests the before commit ahead of the
\* pull_request rule.
ResolveBeforeFirst(e) ==
    LET event_name == Getenv(e, "GITHUB_EVENT_NAME", "")
        base_ref   == Getenv(e, "GITHUB_BASE_REF", "")
        before_sha == Getenv(e, "GITHUB_EVENT_BEFORE", "")
        github_sha == Getenv(e, "GITHUB_SHA", "")
    IN  IF before_sha # "" /\ before_sha # NullSha /\ github_sha # ""
        THEN before_sha \o "..." \o github_sha
        ELSE IF event_name = "pull_request" /\ base_ref # ""
             THEN ("origin/" \o base_ref) \o "...HEAD"
             ELSE "HEAD~1...HEAD"

\* Variant of resolve_diff_range without the null-commit test.
ResolveNoSentinel(e) ==
    LET event_name == Getenv(e, "GITHUB_EVENT_NAME", "")
        base_ref   == Getenv(e, "GITHUB_BASE_REF", "")
        before_sha == Getenv(e, "GITHUB_EVENT_BEFORE", "")
        github_sha == Getenv(e, "GITHUB_SHA", "")
    IN  IF event_name = "pull_request" /\ base_ref # ""
        THEN ("origin/" \o base_ref) \o "...HEAD"
        ELSE IF before_sha # "" /\ github_sha # ""
             THEN before_sha \o "..." \o github_sha
             ELSE "HEAD~1...HEAD"

resolve_diff_range(e) ==
    LET event_name == Getenv(e, "GITHUB_EVENT_NAME", "")
        base_ref   == Getenv(e, "GITHUB_BASE_REF", "")
        before_sha == Getenv(e, "GITHUB_EVENT_BEFORE", "")
        github_sha == Getenv(e, "GITHUB_SHA", "")
    IN  IF event_name = "pull_request" /\ base_ref # ""
        THEN ("origin/" \o base_ref) \o "...HEAD"
        ELSE IF before_sha # "" /\ before_sha # NullSha /\ github_sha # ""
             THEN before_sha \o "..." \o github_sha
             ELSE "HEAD~1...HEAD"

(***************************************************************************)
(* Paths: pathlib's Path.suffix and str.lower().                           *)
(***************************************************************************)
UpperToLower ==
    ("A" :> "a") @@ ("B" :> "b") @@ ("C" :> "c") @@ ("D" :> "d") @@
    ("E" :> "e") @@ ("F" :> "f") @@ ("G" :> "g") @@ ("H" :> "h") @@
    ("I" :> "i") @@ ("J" :> "j") @@ ("K" :> "k") @@ ("L" :> "l") @@
    ("M" :> "m") @@ ("N" :> "n") @@ ("O" :> "o") @@ ("P" :> "p") @@
    ("Q" :> "q") @@ ("R" :> "r") @@ ("S" :> "s") @@ ("T" :> "t") @@
    ("U" :> "u") @@ ("V" :> "v") @@ ("W" :> "w") @@ ("X" :> "x") @@
    ("Y" :> "y") @@ ("Z" :> "z")

Lower(s) ==
    [i \in 1..Len(s) |-> IF s[i] \in DOMAIN UpperToLower THEN UpperToLower[s[i]] ELSE s[i]]

\* The position of the last occurrence of ch in s, 0 when there is none.
LastIndexOf(s, ch) ==
    LET hits == {i \in 1..Len(s) : s[i] = ch}
    IN  IF hits = {} THEN 0 ELSE CHOOSE i \in hits : \A j \in hits : j <= i

\* Path.name: the final component of the path.
PathName(path) == SubSeq(path, LastIndexOf(path, "/") + 1, Len(path))

\* Path.suffix: the final component from its last dot on, empty when that dot
\* leads or ends the name.
Suffix(path) ==
    LET name == PathName(path)
        dot  == LastIndexOf(name, ".")
    IN  IF dot > 1 /\ dot < Len(name) THEN SubSeq(name, dot, Len(name)) ELSE <<>>

(***************************************************************************)
(* Text: read_text(encoding="utf-8", errors="ignore"), str.splitlines(),   *)
(* str.strip(), CYRILLIC_PATTERN.search.                                   *)
(***************************************************************************)
\* errors="ignore" drops what cannot be decoded.
Decode(bytes) == SelectSeq(bytes, LAMBDA c : c # BadByte)

\* Text mode reads with universal newlines: \r\n and a lone \r become \n.
\* (The \n of a \r\n is marked with BadByte, which no decoded text holds.)
UniversalNewlines(s) ==
    SelectSeq([i \in 1..Len(s) |->
                   IF s[i] = 10 /\ i > 1 /\ s[i - 1] = 13 THEN BadByte
                   ELSE IF s[i] = 13 THEN 10
                   ELSE s[i]],
              LAMBDA c : c # BadByte)

ReadText(bytes) == UniversalNewlines(Decode(bytes))

\* The characters str.splitlines() breaks a line at.
LineBreaks == {10, 11, 12, 13, 28, 29, 30, 133, 8232, 8233}

\* The characters str.strip() removes (str.isspace).
Whitespace ==
    (9..13) \cup (28..32) \cup {133, 160, 5760} \cup (8192..8202)
        \cup {8232, 8233, 8239, 8287, 12288}

\* str.splitlines(): the text cut at every line break, the breaks dropped; text
\* after the last break is a line only when it is not empty.
RECURSIVE SplitFrom(_, _)
SplitFrom(s, start) ==
    IF start > Len(s) THEN <<>>
    ELSE LET breaks == {i \in start..Len(s) : s[i] \in LineBreaks}
         IN  IF breaks = {} THEN <<SubSeq(s, start, Len(s))>>
             ELSE LET b == CHOOSE i \in breaks : \A j \in breaks : i <= j
                  IN  <<SubSeq(s, start, b - 1)>> \o SplitFrom(s, b + 1)

SplitLines(s) == SplitFrom(s, 1)

Strip(line) ==
    LET keep == {i \in 1..Len(line) : line[i] \notin Whitespace}
    IN  IF keep = {} THEN <<>>
        ELSE SubSeq(line,
                    CHOOSE i \in keep : \A j \in keep : i <= j,
                    CHOOSE i \in keep : \A j \in keep : j <= i)

\* Variant of IsCyrillic whose range starts after U+0400.
IsCyrillicOpenLow(c) == c > CyrillicFirst /\ c <= CyrillicLast

\* [Ѐ-ӿ]
IsCyrillic(c) == c >= CyrillicFirst /\ c <= CyrillicLast

\* CYRILLIC_PATTERN.search(line)
HasCyrillic(line) == \E i \in 1..Len(line) : IsCyrillic(line[i])

\* Variant of Preview that never cuts.
PreviewNoCut(line) == Strip(line)

\* The preview of an offending line.
Preview(line) ==
    LET preview == Strip(line)
    IN  IF Len(preview) > MaxPreview
        THEN SubSeq(preview, 1, EllipsisCut) \o Ellipsis
        ELSE preview

\* f"{path}:{index}: {preview}": the three values the record is formatted from.
Violation(path, k, line) == [path |-> path, line |-> k, preview |-> Preview(line)]

(***************************************************************************)
(* list_changed_files, given what git printed and the working tree: the    *)
(* names that are not blank, exist, are no directory and carry an          *)
(* allow-listed suffix, in git's order (an empty output gives no name).    *)
(***************************************************************************)
\* Variant of list_changed_files without the exists/is_dir tests.
ListNoExistsCheck(output, d) ==
    SelectSeq(output,
              LAMBDA raw : /\ raw # <<>>
                           /\ Lower(Suffix(raw)) \in TEXT_EXTENSIONS)

list_changed_files(output, d) ==
    SelectSeq(output,
              LAMBDA raw : /\ raw # <<>>
                           /\ d[raw].kind # "absent"
                           /\ d[raw].kind # "dir"
                           /\ Lower(Suffix(raw)) \in TEXT_EXTENSIONS)

(***************************************************************************)
(* The inputs of a run.                                                    *)
(***************************************************************************)
Rep(c, n) == [i \in 1..n |-> c]

A_MD == <<"a", ".", "m", "d">>
B_PY == <<"b", ".", "p", "y">>
C_UPPER == <<"c", ".", "P", "Y">>
D_BIN == <<"d", ".", "b", "i", "n">>
GONE_MD == <<"g", ".", "m", "d">>
DIR_MD == <<"x", ".", "m", "d">>
HIDDEN_PY == <<".", "p", "y">>

Names == {A_MD, B_PY, C_UPPER, D_BIN, GONE_MD, DIR_MD, HIDDEN_PY}

\* ""
C_EMPTY == <<>>
\* "ab\r\nc\n": no offending line
C_CLEAN == <<97, 98, 13, 10, 99, 10>>
\* "a\n\n<U+0400>": one offending line, line 3
C_LINE3 == <<97, 10, 10, 1024>>
\* " <U+0416>\t" FF "<U+03FF><bad byte><U+0500>" LF "<U+04FF>" LF
C_EDGES == <<32, 1046, 9, 12, 1023, BadByte, 1280, 10, 1279, 10>>
\* a line of MaxPreview + 2 characters whose trimmed text has exactly MaxPreview
C_EXACT == <<32>> \o Rep(97, MaxPreview - 1) \o <<1046, 32>>
\* a line whose trimmed text has MaxPreview + 1 characters, then one of
\* MaxPreview + 3 with its only offending character last
C_LONG == <<1046>> \o Rep(97, MaxPreview) \o <<10, 9>> \o Rep(98, MaxPreview + 2) \o <<1046>>

Contents == {C_EMPTY, C_CLEAN, C_LINE3, C_EDGES, C_EXACT, C_LONG}

Absent == [kind |-> "absent", readable |-> FALSE, content |-> <<>>]
Directory == [kind |-> "dir", readable |-> FALSE, content |-> <<>>]
Unreadable == [kind |-> "file", readable |-> FALSE, content |-> <<>>]
File(c) == [kind |-> "file", readable |-> TRUE, content |-> c]

\* What each name may be in the working tree.
DiskOptions(n) ==
    CASE n = A_MD -> {Absent, Unreadable} \cup {File(c) : c \in Contents}
      [] n = B_PY -> {Unreadable} \cup {File(c) : c \in Contents}
      [] n = C_UPPER -> {File(C_CLEAN), File(C_EDGES)}
      [] n = D_BIN -> {File(C_LINE3)}
      [] n = GONE_MD -> {Absent}
      [] n = DIR_MD -> {Directory}
      [] n = HIDDEN_PY -> {File(C_EDGES)}

Range(s) == {s[i] : i \in 1..Len(s)}

\* git names each changed path once.
GitOutputs ==
    {s \in UNION {[1..n -> Names] : n \in 0..MaxFiles} :
        \A i, j \in 1..Len(s) : i # j => s[i] # s[j]}

\* What a name git did not print is in the working tree.
DefaultDisk(n) ==
    CASE n = A_MD -> File(C_CLEAN)
      [] n = B_PY -> File(C_LINE3)
      [] n = C_UPPER -> File(C_CLEAN)
      [] OTHER -> CHOOSE o \in DiskOptions(n) : TRUE

OptionsFor(n, output) ==
    IF n \in Range(output) THEN DiskOptions(n) ELSE {DefaultDisk(n)}

\* The working trees for one git output.
Disks(output) ==
    { [n \in Names |-> IF n = A_MD THEN a
                       ELSE IF n = B_PY THEN b
                       ELSE IF n = C_UPPER THEN c
                       ELSE DefaultDisk(n)] :
        a \in OptionsFor(A_MD, output),
        b \in OptionsFor(B_PY, output),
        c \in OptionsFor(C_UPPER, output) }

Option(values) == {<<>>} \cup {<<v>> : v \in values}

Envs ==
    [GITHUB_EVENT_NAME : Option({"", "push", "pull_request"}),
     GITHUB_BASE_REF : Option({"", "main", "dev"}),
     GITHUB_EVENT_BEFORE : Option({"", NullSha, "abc123"}),
     GITHUB_SHA : Option({"", "def456"})]

PullRequestEnv ==
    [GITHUB_EVENT_NAME |-> <<"pull_request">>, GITHUB_BASE_REF |-> <<"main">>,
     GITHUB_EVENT_BEFORE |-> <<>>, GITHUB_SHA |-> <<"def456">>]

PushEnv ==
    [GITHUB_EVENT_NAME |-> <<"push">>, GITHUB_BASE_REF |-> <<>>,
     GITHUB_EVENT_BEFORE |-> <<"abc123">>, GITHUB_SHA |-> <<"def456">>]

(***************************************************************************)
(* The state after start-up, and main() step by step.                      *)
(***************************************************************************)
Locals ==
    /\ pc = "resolve"
    /\ diff_range = ""
    /\ changed_files = <<>>
    /\ file_idx = 1
    /\ lines = <<>>
    /\ index = 1
    /\ violations = <<>>
    /\ all_violations = <<>>
    /\ scanned = <<>>
    /\ stdout = <<>>
    /\ exit_status = NoExit

Init ==
    /\ env \in {PullRequestEnv, PushEnv}
    /\ git_rc \in {0, 128}
    /\ git_output \in GitOutputs
    /\ disk \in Disks(git_output)
    /\ Locals

\* Every environment, one working tree: the runs that differ in the range only.
InitRange ==
    /\ env \in Envs
    /\ git_rc = 0
    /\ git_output = <<>>
    /\ disk \in Disks(git_output)
    /\ Locals

Inputs == <<env, git_rc, git_output, disk>>

Line(text) == [text |-> text, arg |-> <<>>]

Item(v) == [text |-> MsgBullet, arg |-> <<v>>]

\* main: diff_range = resolve_diff_range()
ResolveDiffRange ==
    /\ pc = "resolve"
    /\ diff_range' = resolve_diff_range(env)
    /\ pc' = "list"
    /\ UNCHANGED <<Inputs, changed_files, file_idx, lines, index, violations,
                   all_violations, scanned, stdout, exit_status>>

\* main: changed_files = list_changed_files(diff_range), git succeeding
ListChangedFiles ==
    /\ pc = "list"
    /\ git_rc = 0
    /\ changed_files' = list_changed_files(git_output, disk)
    /\ pc' = "listed"
    /\ UNCHANGED <<Inputs, diff_range, file_idx, lines, index, violations,
                   all_violations, scanned, stdout, exit_status>>

\* Variant of GitFails in which the failure is taken for an empty listing.
GitFailsSwallowed ==
    /\ pc = "list"
    /\ git_rc # 0
    /\ changed_files' = <<>>
    /\ pc' = "listed"
    /\ UNCHANGED <<Inputs, diff_range, file_idx, lines, index, violations,
                   all_violations, scanned, stdout, exit_status>>

\* run_git_command: check=True raises CalledProcessError, which nothing
\* catches: a traceback on stderr and exit status 1.
GitFails ==
    /\ pc = "list"
    /\ git_rc # 0
    /\ pc' = "crashed"
    /\ exit_status' = 1
    /\ UNCHANGED <<Inputs, diff_range, changed_files, file_idx, lines, index,
                   violations, all_violations, scanned, stdout>>

\* Variant of NoChangedFiles that falls through to the clean message.
NoChangedFilesFallsThrough ==
    /\ pc = "listed"
    /\ changed_files = <<>>
    /\ stdout' = Append(stdout, Line(MsgClean))
    /\ exit_status' = 0
    /\ pc' = "done"
    /\ UNCHANGED <<Inputs, diff_range, changed_files, file_idx, lines, index,
                   violations, all_violations, scanned>>

\* main: if not changed_files
NoChangedFiles ==
    /\ pc = "listed"
    /\ changed_files = <<>>
    /\ stdout' = Append(stdout, Line(MsgNoFiles))
    /\ exit_status' = 0
    /\ pc' = "done"
    /\ UNCHANGED <<Inputs, diff_range, changed_files, file_idx, lines, index,
                   violations, all_violations, scanned>>

\* scan_file: read_text(...).splitlines() succeeds
ScanFileRead ==
    /\ pc = "listed"
    /\ file_idx <= Len(changed_files)
    /\ disk[changed_files[file_idx]].kind = "file"
    /\ disk[changed_files[file_idx]].readable
    /\ scanned' = Append(scanned, changed_files[file_idx])
    /\ lines' = SplitLines(ReadText(disk[changed_files[file_idx]].content))
    /\ index' = 1
    /\ violations' = <<>>
    /\ pc' = "scan"
    /\ UNCHANGED <<Inputs, diff_range, changed_files, file_idx, all_violations,
                   stdout, exit_status>>

\* Variant of ScanFileOSError in which the OSError is not caught.
ScanFileOSErrorAborts ==
    /\ pc = "listed"
    /\ file_idx <= Len(changed_files)
    /\ ~(disk[changed_files[file_idx]].kind = "file"
         /\ disk[changed_files[file_idx]].readable)
    /\ scanned' = Append(scanned, changed_files[file_idx])
    /\ pc' = "crashed"
    /\ exit_status' = 1
    /\ UNCHANGED <<Inputs, diff_range, changed_files, file_idx, lines, index,
                   violations, all_violations, stdout>>

\* scan_file: read_text raises OSError; main extends all_violations by []
ScanFileOSError ==
    /\ pc = "listed"
    /\ file_idx <= Len(changed_files)
    /\ ~(disk[changed_files[file_idx]].kind = "file"
         /\ disk[changed_files[file_idx]].readable)
    /\ scanned' = Append(scanned, changed_files[file_idx])
    /\ file_idx' = file_idx + 1
    /\ UNCHANGED <<Inputs, pc, diff_range, changed_files, lines, index, violations,
                   all_violations, stdout, exit_status>>

\* Variant of ScanLine numbering the lines from 0.
ScanLineFromZero ==
    /\ pc = "scan"
    /\ index <= Len(lines)
    /\ violations' =
           IF HasCyrillic(lines[index])
           THEN Append(violations, Violation(changed_files[file_idx], index - 1, lines[index]))
           ELSE violations
    /\ index' = index + 1
    /\ UNCHANGED <<Inputs, pc, diff_range, changed_files, file_idx, lines,
                   all_violations, scanned, stdout, exit_status>>

\* scan_file: one turn of the loop over enumerate(lines, start=1)
ScanLine ==
    /\ pc = "scan"
    /\ index <= Len(lines)
    /\ violations' =
           IF HasCyrillic(lines[index])
           THEN Append(violations, Violation(changed_files[file_idx], index, lines[index]))
           ELSE violations
    /\ index' = index + 1
    /\ UNCHANGED <<Inputs, pc, diff_range, changed_files, file_idx, lines,
                   all_violations, scanned, stdout, exit_status>>

\* Variant of ScanFileReturn that puts a file's violations first.
ScanFileReturnPrepends ==
    /\ pc = "scan"
    /\ index > Len(lines)
    /\ all_violations' = violations \o all_violations
    /\ file_idx' = file_idx + 1
    /\ pc' = "listed"
    /\ UNCHANGED <<Inputs, diff_range, changed_files, lines, index, violations,
                   scanned, stdout, exit_status>>

\* scan_file returns; main: all_violations.extend(...)
ScanFileReturn ==
    /\ pc = "scan"
    /\ index > Len(lines)
    /\ all_violations' = all_violations \o violations
    /\ file_idx' = file_idx + 1
    /\ pc' = "listed"
    /\ UNCHANGED <<Inputs, diff_range, changed_files, lines, index, violations,
                   scanned, stdout, exit_status>>

\* main: if all_violations
ReportViolations ==
    /\ pc = "listed"
    /\ changed_files # <<>>
    /\ file_idx > Len(changed_files)
    /\ all_violations # <<>>
    /\ stdout' = (Append(stdout, Line(MsgHeader))
                     \o [i \in 1..Len(all_violations) |-> Item(all_violations[i])])
                     \o <<Line(MsgClosing)>>
    /\ exit_status' = 1
    /\ pc' = "done"
    /\ UNCHANGED <<Inputs, diff_range, changed_files, file_idx, lines, index,
                   violations, all_violations, scanned>>

\* main: no violation
ReportClean ==
    /\ pc = "listed"
    /\ changed_files # <<>>
    /\ file_idx > Len(changed_files)
    /\ all_violations = <<>>
    /\ stdout' = Append(stdout, Line(MsgClean))
    /\ exit_status' = 0
    /\ pc' = "done"
    /\ UNCHANGED <<Inputs, diff_range, changed_files, file_idx, lines, index,
                   violations, all_violations, scanned>>

Next ==
    \/ ResolveDiffRange
    \/ ListChangedFiles
    \/ GitFails
    \/ NoChangedFiles
    \/ ScanFileRead
    \/ ScanFileOSError
    \/ ScanLine
    \/ ScanFileReturn
    \/ ReportViolations
    \/ ReportClean

Spec == Init /\ [][Next]_vars

NextRange == ResolveDiffRange

SpecRange == InitRange /\ [][NextRange]_vars

(***************************************************************************)
(* Vocabulary of the properties, stated on the inputs and not through the  *)
(* operators above.                                                        *)
(***************************************************************************)
InBlock(c) == c \in CyrillicFirst..CyrillicLast

\* The file is there, can be read, and holds a character of the block.
ReadableWithCyrillic(path) ==
    /\ disk[path].kind = "file"
    /\ disk[path].readable
    /\ \E k \in 1..Len(disk[path].content) : InBlock(disk[path].content[k])

CannotBeRead(path) == ~(disk[path].kind = "file" /\ disk[path].readable)

\* The name ends, case aside, in an extension of the allow-list that is not
\* the whole name.
HasAllowedExtension(path) ==
    \E ext \in TEXT_EXTENSIONS :
        /\ Len(path) > Len(ext)
        /\ path[Len(path) - Len(ext)] # "/"
        /\ \A i \in 1..Len(ext) :
               LET ch == path[Len(path) - Len(ext) + i]
               IN  ext[i] = IF ch \in DOMAIN UpperToLower THEN UpperToLower[ch] ELSE ch

PassesFilters(path) ==
    /\ disk[path].kind = "file"
    /\ HasAllowedExtension(path)

OffendingLine(line) == \E i \in 1..Len(line) : InBlock(line[i])

\* t is line without its leading and trailing whitespace.
IsTrimOf(t, line) ==
    /\ Len(t) <= Len(line)
    /\ \E lead \in 0..(Len(line) - Len(t)) :
           /\ \A k \in 1..lead : line[k] \in Whitespace
           /\ \A k \in (lead + Len(t) + 1)..Len(line) : line[k] \in Whitespace
           /\ \A k \in 1..Len(t) : t[k] = line[lead + k]
    /\ t # <<>> => (t[1] \notin Whitespace /\ t[Len(t)] \notin Whitespace)

\* The number of characters of line between its first and last non-whitespace
\* ones, both counted.
TrimmedLen(line) ==
    LET keep == {i \in 1..Len(line) : line[i] \notin Whitespace}
    IN  IF keep = {} THEN 0
        ELSE (CHOOSE i \in keep : \A j \in keep : j <= i)
                 - (CHOOSE i \in keep : \A j \in keep : i <= j) + 1

\* p is the first EllipsisCut characters of the trimmed line, then "...".
IsCutOf(p, line) ==
    /\ Len(p) = EllipsisCut + 3
    /\ \A k \in 1..3 : p[EllipsisCut + k] = 46
    /\ TrimmedLen(line) > MaxPreview
    /\ \E lead \in 0..(Len(line) - EllipsisCut) :
           /\ \A k \in 1..lead : line[k] \in Whitespace
           /\ line[lead + 1] \notin Whitespace
           /\ \A k \in 1..EllipsisCut : p[k] = line[lead + k]

Done == pc = "done"

(***************************************************************************)
(* Range resolver.                                                         *)
(***************************************************************************)
RuleOneApplies ==
    /\ Getenv(env, "GITHUB_EVENT_NAME", "") = "pull_request"
    /\ Getenv(env, "GITHUB_BASE_REF", "") # ""

\* C3: for a pull_request event with a non-empty base branch the range is
\* origin/<base branch>...HEAD, whatever the before and current commit
\* variables hold.
C3_PullRequestRuleFirst ==
    (pc = "list" /\ RuleOneApplies) =>
        diff_range = "origin/" \o Getenv(env, "GITHUB_BASE_REF", "") \o "...HEAD"

C3_Witness ==
    /\ pc = "list"
    /\ env.GITHUB_EVENT_NAME = <<"pull_request">>
    /\ env.GITHUB_BASE_REF = <<"dev">>
    /\ env.GITHUB_EVENT_BEFORE = <<"abc123">>
    /\ env.GITHUB_SHA = <<"def456">>
    /\ diff_range = "origin/dev...HEAD"

\* C4: the resolver always returns, and returns a non-empty range; when rule 1
\* does not apply the range is <before>...<current> exactly when before is
\* non-empty, is not the null commit and current is non-empty, and HEAD~1...HEAD
\* in every other case.
C4_PushRuleAndFallback ==
    /\ pc = "resolve" => ENABLED ResolveDiffRange
    /\ pc = "list" =>
           /\ Len(diff_range) > 0
           /\ ~RuleOneApplies =>
                  LET before  == Getenv(env, "GITHUB_EVENT_BEFORE", "")
                      current == Getenv(env, "GITHUB_SHA", "")
                  IN  IF before # "" /\ before # NullSha /\ current # ""
                      THEN diff_range = before \o "..." \o current
                      ELSE diff_range = "HEAD~1...HEAD"

C4_Witness ==
    /\ pc = "list"
    /\ env.GITHUB_EVENT_NAME = <<"pull_request">>
    /\ env.GITHUB_BASE_REF = <<"">>
    /\ env.GITHUB_EVENT_BEFORE = <<NullSha>>
    /\ env.GITHUB_SHA = <<"def456">>
    /\ diff_range = "HEAD~1...HEAD"

(***************************************************************************)
(* Line scanner.  While scan_file runs (pc = "scan") the lines before      *)
(* index have been tested; when index passes the last line, violations is  *)
(* what scan_file returns.                                                 *)
(***************************************************************************)
OffendingSoFar == {k \in 1..(index - 1) : OffendingLine(lines[k])}

\* C5: scan_file yields exactly one violation for each line k that holds a
\* character of U+0400..U+04FF and none for any other line; the violation
\* carries the file's path, line number k and a preview that is the trimmed
\* line or its cut to EllipsisCut characters plus "..."; a file with no such
\* character yields no violation.
C5_OneViolationPerOffendingLine ==
    pc = "scan" =>
        /\ Len(violations) = Cardinality(OffendingSoFar)
        /\ \A n \in 1..Len(violations) :
               /\ violations[n].line \in OffendingSoFar
               /\ violations[n].path = changed_files[file_idx]
               /\ \/ IsTrimOf(violations[n].preview, lines[violations[n].line])
                  \/ IsCutOf(violations[n].preview, lines[violations[n].line])
        /\ \A n, m \in 1..Len(violations) :
               n < m => violations[n].line < violations[m].line
        /\ ~ReadableWithCyrillic(changed_files[file_idx]) => violations = <<>>

\* The scan of a file whose lines 1 and 3 offend and whose line 2 does not has
\* ended with the two violations.
C5_Witness ==
    /\ pc = "scan"
    /\ index = Len(lines) + 1
    /\ Len(lines) = 3
    /\ ~OffendingLine(lines[2])
    /\ Len(violations) = 2
    /\ violations[1].line = 1
    /\ violations[1].preview = <<1046>>
    /\ violations[2].line = 3

\* C6 as stated: every offending line of more than MaxPreview characters has
\* a preview of exactly MaxPreview characters ending in "...".
C6_LongLineIsCut ==
    pc = "scan" =>
        \A n \in 1..Len(violations) :
            Len(lines[violations[n].line]) > MaxPreview =>
                /\ Len(violations[n].preview) = MaxPreview
                /\ SubSeq(violations[n].preview, MaxPreview - 2, MaxPreview) = Ellipsis

\* C6, amended: every offending line whose trimmed text has more than
\* MaxPreview characters has a preview of exactly MaxPreview characters, the
\* first EllipsisCut being the start of the trimmed line and the last three
\* "..."; no preview is longer than MaxPreview characters.
C6_LongTrimmedLineIsCut ==
    pc = "scan" =>
        \A n \in 1..Len(violations) :
            /\ Len(violations[n].preview) <= MaxPreview
            /\ TrimmedLen(lines[violations[n].line]) > MaxPreview =>
                   /\ Len(violations[n].preview) = MaxPreview
                   /\ IsCutOf(violations[n].preview, lines[violations[n].line])

\* A line of more than MaxPreview characters after trimming, whose offending
\* character lies in the part that is cut off, has been recorded.
C6_Witness ==
    /\ pc = "scan"
    /\ \E n \in 1..Len(violations) :
           LET line == lines[violations[n].line]
           IN  /\ TrimmedLen(line) > MaxPreview
               /\ line[1] \in Whitespace
               /\ \A i \in 1..MaxPreview : ~InBlock(line[i])
               /\ Len(violations[n].preview) = MaxPreview

(***************************************************************************)
(* main: exit status and report.                                           *)
(***************************************************************************)
SomeScannedFileOffends ==
    \E i \in 1..Len(changed_files) : ReadableWithCyrillic(changed_files[i])

\* C1: when the listing succeeds main does not fail, and it ends with
\* status 1 if and only if a scanned changed file holds a character of
\* U+0400..U+04FF, and with status 0 otherwise; the report is exactly one of
\* nothing to check, clean, violations found.
C1_ExitStatus ==
    /\ git_rc = 0 => pc # "crashed"
    /\ Done =>
           /\ exit_status = IF SomeScannedFileOffends THEN 1 ELSE 0
           /\ stdout # <<>>
           /\ stdout[1] \in {Line(MsgNoFiles), Line(MsgClean), Line(MsgHeader)}
           /\ stdout[1] = Line(MsgNoFiles) <=> changed_files = <<>>
           /\ stdout[1] = Line(MsgClean) <=>
                  (changed_files # <<>> /\ ~SomeScannedFileOffends)
           /\ stdout[1] = Line(MsgHeader) <=> SomeScannedFileOffends
           /\ stdout[1] # Line(MsgHeader) => Len(stdout) = 1

\* Two files were scanned, the second holds U+0400 as its only character of
\* the block, and the run ended with status 1.
C1_Witness ==
    /\ Done
    /\ exit_status = 1
    /\ Len(changed_files) = 2
    /\ ~ReadableWithCyrillic(changed_files[1])
    /\ disk[changed_files[2]].content = C_LINE3

\* C2: with an empty changed-file list main's next step prints "No changed
\* text files to scan." and ends with status 0, no file having been scanned,
\* whatever the files hold.
C2_NothingToScan ==
    [][(pc = "listed" /\ changed_files = <<>>) =>
           /\ pc' = "done"
           /\ exit_status' = 0
           /\ stdout' = <<Line(MsgNoFiles)>>
           /\ scanned' = <<>>]_vars

\* git named two files that hold characters of the block, both were filtered
\* out, and the run ended on the empty list.
C2_Witness ==
    /\ Done
    /\ changed_files = <<>>
    /\ Len(git_output) = 2
    /\ \A i \in 1..Len(git_output) : ReadableWithCyrillic(git_output[i])
    /\ stdout = <<Line(MsgNoFiles)>>

(***************************************************************************)
(* Change lister.                                                          *)
(***************************************************************************)
ReportedPaths ==
    {violations[n].path : n \in 1..Len(violations)}
        \cup {all_violations[n].path : n \in 1..Len(all_violations)}
        \cup UNION {{stdout[n].arg[i].path : i \in 1..Len(stdout[n].arg)} :
                        n \in 1..Len(stdout)}

\* C7: only names git printed that are files on disk with an allow-listed
\* extension (case aside) are passed to scan_file or reported; the other names
\* cause no failure, and the exit status is decided by the names that pass.
C7_FilteredFilesNeverScanned ==
    /\ \A i \in 1..Len(scanned) :
           scanned[i] \in Range(git_output) /\ PassesFilters(scanned[i])
    /\ \A path \in ReportedPaths :
           path \in Range(git_output) /\ PassesFilters(path)
    /\ git_rc = 0 => pc # "crashed"
    /\ Done =>
           exit_status =
               IF \E path \in Range(git_output) :
                      PassesFilters(path) /\ ReadableWithCyrillic(path)
               THEN 1 ELSE 0

\* git named a file that holds characters of the block and fails a filter,
\* beside a clean file that passes; the run ended clean.
C7_Witness ==
    /\ Done
    /\ exit_status = 0
    /\ stdout = <<Line(MsgClean)>>
    /\ Len(git_output) = 2
    /\ Len(scanned) = 1
    /\ \E path \in Range(git_output) :
           ~PassesFilters(path) /\ ReadableWithCyrillic(path)

(***************************************************************************)
(* Error handling.                                                         *)
(***************************************************************************)
\* What scan_file returns for a file that can be read.
FileViolations(path) ==
    LET ls == SplitLines(ReadText(disk[path].content))
    IN  SelectSeq([k \in 1..Len(ls) |-> Violation(path, k, ls[k])],
                  LAMBDA v : OffendingLine(ls[v.line]))

\* The violations of the files of a list that can be read, in the list's order.
RECURSIVE ViolationsOf(_)
ViolationsOf(files) ==
    IF files = <<>> THEN <<>>
    ELSE (IF CannotBeRead(Head(files)) THEN <<>> ELSE FileViolations(Head(files)))
             \o ViolationsOf(Tail(files))

SomeFileCannotBeRead ==
    \E i \in 1..Len(changed_files) : CannotBeRead(changed_files[i])

\* C8: a changed file that cannot be opened does not end the run: every file
\* of the list is still passed to scan_file, and the violations, the report
\* and the exit status are those of the files that can be read (status 0 and
\* the clean message when none of them offends).
C8_UnreadableFileSkipped ==
    /\ git_rc = 0 => pc # "crashed"
    /\ (Done /\ SomeFileCannotBeRead) =>
           /\ scanned = changed_files
           /\ all_violations =
                  ViolationsOf(SelectSeq(changed_files, LAMBDA f : ~CannotBeRead(f)))
           /\ all_violations = <<>> =>
                  (exit_status = 0 /\ stdout = <<Line(MsgClean)>>)
           /\ all_violations # <<>> =>
                  /\ exit_status = 1
                  /\ Len(stdout) = Len(all_violations) + 2
                  /\ \A n \in 1..Len(all_violations) :
                         stdout[n + 1] = Item(all_violations[n])

\* The first of two changed files could not be read, the second was scanned
\* after it and its violations were reported.
C8_Witness ==
    /\ Done
    /\ Len(changed_files) = 2
    /\ CannotBeRead(changed_files[1])
    /\ scanned = changed_files
    /\ exit_status = 1
    /\ all_violations # <<>>
    /\ \A n \in 1..Len(all_violations) : all_violations[n].path = changed_files[2]

\* C9: when git exits non-zero main fails: the process ends with a non-zero
\* status, no file is scanned and nothing is printed, and nothing follows.
C9_GitFailurePropagates ==
    (git_rc # 0 /\ pc \notin {"resolve", "list"}) =>
        /\ pc = "crashed"
        /\ exit_status \notin {0, NoExit}
        /\ scanned = <<>>
        /\ stdout = <<>>
        /\ changed_files = <<>>
        /\ all_violations = <<>>

\* git failed on a range that names a file with characters of the block.
C9_Witness ==
    /\ pc = "crashed"
    /\ git_rc # 0
    /\ \E i \in 1..Len(git_output) :
           PassesFilters(git_output[i]) /\ ReadableWithCyrillic(git_output[i])

(***************************************************************************)
(* Reporter.                                                               *)
(***************************************************************************)
\* The offending lines of the scanned files: <<position in changed_files,
\* line number>>.
OffendingPlaces ==
    UNION { LET path == changed_files[i]
                ls   == IF CannotBeRead(path) THEN <<>>
                        ELSE SplitLines(ReadText(disk[path].content))
            IN  {<<i, k>> : k \in {j \in 1..Len(ls) : OffendingLine(ls[j])}} :
            i \in 1..Len(changed_files) }

\* The place in OffendingPlaces the n-th printed violation line stands for.
PlaceOfItem(n) ==
    LET v == stdout[n + 1].arg[1]
    IN  <<CHOOSE i \in 1..Len(changed_files) : changed_files[i] = v.path, v.line>>

\* C10: with one or more violations the report is the header line, one line
\* per violation made of its path, line number and preview, and the closing
\* line, with status 1; the violation lines follow the order of the
\* changed-file list and, within a file, increasing line numbers, and there
\* are as many as offending lines in the scanned files.  For [a.md clean,
\* b.py offending on line 3 only] the one violation line is b.py:3.
C10_ReportFormatAndOrder ==
    /\ (pc = "listed" /\ file_idx > Len(changed_files) /\ all_violations # <<>>) =>
           OffendingPlaces # {}
    /\ (Done /\ OffendingPlaces # {}) =>
           /\ exit_status = 1
           /\ Len(stdout) = Cardinality(OffendingPlaces) + 2
           /\ stdout[1] = Line(MsgHeader)
           /\ stdout[Len(stdout)] = Line(MsgClosing)
           /\ \A n \in 1..(Len(stdout) - 2) :
                  /\ stdout[n + 1].text = MsgBullet
                  /\ Len(stdout[n + 1].arg) = 1
                  /\ DOMAIN stdout[n + 1].arg[1] = {"path", "line", "preview"}
                  /\ stdout[n + 1].arg[1] = all_violations[n]
                  /\ PlaceOfItem(n) \in OffendingPlaces
           /\ \A n, m \in 1..(Len(stdout) - 2) :
                  n < m =>
                      \/ PlaceOfItem(n)[1] < PlaceOfItem(m)[1]
                      \/ /\ PlaceOfItem(n)[1] = PlaceOfItem(m)[1]
                         /\ PlaceOfItem(n)[2] < PlaceOfItem(m)[2]
           /\ (changed_files = <<A_MD, B_PY>> /\ disk[A_MD].content = C_CLEAN
                   /\ disk[B_PY].content = C_LINE3) =>
                  /\ Len(stdout) = 3
                  /\ stdout[2].arg[1].path = B_PY
                  /\ stdout[2].arg[1].line = 3

\* Two files with offending lines each, the first with two of them, were
\* reported.
C10_Witness ==
    /\ Done
    /\ exit_status = 1
    /\ Len(changed_files) = 2
    /\ Len(stdout) >= 5
    /\ stdout[2].arg[1].path = changed_files[1]
    /\ stdout[3].arg[1].path = changed_files[1]
    /\ stdout[Len(stdout) - 1].arg[1].path = changed_files[2]

====
